---- MODULE Spec2Model ----
(***************************************************************************)
(* The Product service of the API templates: ProductService (create,      *)
(* update, delete, publish, bulk_update_prices) over the products table   *)
(* declared by the Product model, with the table's declared constraints   *)
(* (unique sku, NOT NULL columns, CHECK price > 0, CHECK quantity >= 0).  *)
(*                                                                         *)
(* Money is counted in thousandths of a dollar ("mills"), so that the     *)
(* service's Decimal("0.01") threshold is 10 and a price such as 0.005    *)
(* is representable.  An optional (nullable) value is a sequence of       *)
(* length at most one: None is << >> and a present value v is << v >>.    *)
(***************************************************************************)
EXTENDS Integers, Sequences, FiniteSets, TLC

\* ------------------------------------------------------------------ bounds
MaxProducts == 2
MaxPrice == 20
MaxCalls == 3

\* --------------------------------------------------------- program constants
MinPrice == 10
MillsPerCent == 10
DefaultQuantity == 0
MinNameLength == 1
MaxNameLength == 200
MaxDescriptionLength == 2000
MaxSkuLength == 50
MinLimit == 1
MaxLimit == 100
HTTP_200_OK == 200
HTTP_201_CREATED == 201
HTTP_204_NO_CONTENT == 204
HTTP_422_UNPROCESSABLE_ENTITY == 422

\* ------------------------------------------------------------ value domains
None == << >>
Some(v) == << v >>

Skus == {"S1", "S2"}
Categories == {"c1", "c2"}
\* The authenticated users: one creates, another updates, a third publishes.
Creators == {"u1"}
Updaters == {"u2"}
Publishers == {"u3"}
Workers == {"w1", "w2"}
ProductIds == 1 .. MaxProducts

UpdatableFields == {"name", "description", "price", "category_id"}

\* The create requests handed to ProductService.create.  The service does not
\* re-validate its argument, so prices below the schema's bound are included.
CreatePrices == {-10, 0, 5, 10}
CreateDescriptions == {None, Some("D")}
CreateRequests ==
    { [name |-> "A", description |-> d, price |-> p, sku |-> s, category_id |-> "c1"] :
        d \in CreateDescriptions, p \in CreatePrices, s \in Skus }

\* The PATCH bodies accepted by ProductUpdate: every field is optional with
\* default None; fields_set is pydantic's record of the fields the caller sent,
\* and a sent field may carry an explicit null.
SentNames == {None, Some("B")}
SentDescriptions == {None, Some(""), Some("D")}
SentPrices == {Some(0), Some(20)}
SentCategories == {Some("c2")}
ProductUpdate(fields_set, n, d, p, c) ==
    [fields_set |-> fields_set,
     name |-> IF "name" \in fields_set THEN n ELSE None,
     description |-> IF "description" \in fields_set THEN d ELSE None,
     price |-> IF "price" \in fields_set THEN p ELSE None,
     category_id |-> IF "category_id" \in fields_set THEN c ELSE None]
ProductUpdates ==
    { ProductUpdate(S, n, d, p, c) :
        S \in SUBSET UpdatableFields, n \in SentNames, d \in SentDescriptions,
        p \in SentPrices, c \in SentCategories }

\* Multipliers of bulk_update_prices, in tenths (-1.0, 0, 0.4, 0.5, 2.0).
Multipliers == {-10, 0, 4, 5, 20}

\* The arguments of list: offsets up to the table size, page sizes from one,
\* an optional category and an optional search term.
Skips == 0 .. MaxProducts
Limits == 1 .. MaxProducts
CategoryFilters == {None} \cup {Some(c) : c \in Categories}
Searches == {None, Some(""), Some("a"), Some("_")}

VARIABLES
    products,   \* the committed rows of the products table
    nextId,     \* the next identity uuid4 hands out
    calls,      \* the number of service calls started so far
    pc,         \* per request worker: position inside create
    pending,    \* per request worker: the create call in flight
    call,       \* the call that finished last: the operation and its arguments
    raised,     \* the error raised by the call that finished last
    logged,     \* the structured event logged by the call that finished last
    dbcalls,    \* the session calls issued by the call that finished last
    returned    \* the value returned by the call that finished last

vars == << products, nextId, calls, pc, pending, call, raised, logged, dbcalls, returned >>

\* ------------------------------------------------------------------- errors
NoDetails == [sku |-> None, existing_id |-> None, product_id |-> None]
NoError == [kind |-> "none", code |-> "", details |-> NoDetails]
NotFoundError(product_id) ==
    [kind |-> "NotFoundError", code |-> "",
     details |-> [NoDetails EXCEPT !.product_id = Some(product_id)]]
ConflictError(code, sku, existing_id) ==
    [kind |-> "ConflictError", code |-> code,
     details |-> [NoDetails EXCEPT !.sku = Some(sku), !.existing_id = Some(existing_id)]]
ValidationError(code) ==
    [kind |-> "ValidationError", code |-> code, details |-> NoDetails]
\* The driver's error for a statement the table's constraints refuse.
IntegrityError(constraint) ==
    [kind |-> "IntegrityError", code |-> constraint, details |-> NoDetails]

\* ------------------------------------------------------------------- events
\* The keyword arguments of the logger.info calls; the ones a call does not
\* pass are None.
NoEvent ==
    [event |-> "none", product_id |-> None, sku |-> None, actor |-> None,
     updated_fields |-> {}, category_id |-> None, multiplier |-> None,
     count |-> None]
product_created(product_id, sku, created_by) ==
    [NoEvent EXCEPT !.event = "product_created", !.product_id = Some(product_id),
                    !.sku = Some(sku), !.actor = Some(created_by)]
product_updated(product_id, fields, updated_by) ==
    [NoEvent EXCEPT !.event = "product_updated", !.product_id = Some(product_id),
                    !.updated_fields = fields, !.actor = Some(updated_by)]
product_deleted(product_id) ==
    [NoEvent EXCEPT !.event = "product_deleted", !.product_id = Some(product_id)]
product_published(product_id, published_by) ==
    [NoEvent EXCEPT !.event = "product_published", !.product_id = Some(product_id),
                    !.actor = Some(published_by)]
bulk_prices_updated(category_id, multiplier, count) ==
    [NoEvent EXCEPT !.event = "bulk_prices_updated", !.category_id = Some(category_id),
                    !.multiplier = Some(multiplier), !.count = Some(count)]

\* ------------------------------------------------- the products table (ORM)
\* Numeric(10, 2): a stored price is rounded to two fractional digits,
\* half away from zero.
Numeric_10_2(mills) ==
    IF mills >= 0
    THEN ((mills + (MillsPerCent \div 2)) \div MillsPerCent) * MillsPerCent
    ELSE -((((-mills) + (MillsPerCent \div 2)) \div MillsPerCent) * MillsPerCent)

\* What the table stores for a session object: the price column coerced.
Stored(obj) ==
    IF obj.price = None THEN obj
    ELSE [obj EXCEPT !.price = Some(Numeric_10_2(obj.price[1]))]

\* Variant: the sku column declared without unique=True.
uq_products_sku_dropped(rows) == TRUE

\* sku: unique=True
uq_products_sku(rows) ==
    \A r1 \in rows : \A r2 \in rows : r1.sku = r2.sku => r1.id = r2.id

\* Variant: the columns declared nullable.
not_null_dropped(rows) == TRUE

\* nullable=False on name, sku, price, category_id
not_null(rows) ==
    \A r \in rows : r.name # None /\ r.price # None /\ r.category_id # None

\* Variant: the table declared without its CHECK on price.
ck_products_positive_price_dropped(rows) == TRUE

\* CheckConstraint("price > 0"); a CHECK passes on NULL
ck_products_positive_price(rows) ==
    \A r \in rows : r.price # None => r.price[1] > 0

\* CheckConstraint("quantity >= 0")
ck_products_non_negative_quantity(rows) ==
    \A r \in rows : r.quantity >= 0

\* Variant: a table whose unique index on sku is not consulted.
Violated_no_unique(rows) ==
    IF ~not_null(rows) THEN "not_null"
    ELSE IF ~ck_products_positive_price(rows) THEN "ck_products_positive_price"
    ELSE IF ~ck_products_non_negative_quantity(rows)
         THEN "ck_products_non_negative_quantity"
    ELSE ""

\* The constraint a new table content breaks, "" when it breaks none.
Violated(rows) ==
    IF ~not_null(rows) THEN "not_null"
    ELSE IF ~uq_products_sku(rows) THEN "uq_products_sku"
    ELSE IF ~ck_products_positive_price(rows) THEN "ck_products_positive_price"
    ELSE IF ~ck_products_non_negative_quantity(rows)
         THEN "ck_products_non_negative_quantity"
    ELSE ""

\* result.scalar_one_or_none() of select(Product).where(Product.id == id)
select_by_id(rows, product_id) ==
    IF \E r \in rows : r.id = product_id
    THEN Some(CHOOSE r \in rows : r.id = product_id)
    ELSE None

\* ProductService.get_by_sku
get_by_sku(rows, sku) ==
    IF \E r \in rows : r.sku = sku
    THEN Some(CHOOSE r \in rows : r.sku = sku)
    ELSE None

\* The characters of the strings that names and search terms are made of.
Chars(s) ==
    CASE s = "" -> << >>
      [] s = "A" -> << "A" >>
      [] s = "B" -> << "B" >>
      [] s = "D" -> << "D" >>
      [] s = "a" -> << "a" >>
      [] s = "_" -> << "_" >>
      [] s = "S1" -> << "S", "1" >>
      [] s = "S2" -> << "S", "2" >>
      [] s = "s1" -> << "s", "1" >>
      [] s = "S-1" -> << "S", "-", "1" >>
      [] s = "S_1" -> << "S", "_", "1" >>
      [] s = "X*200" -> [i \in 1 .. MaxNameLength |-> "X"]
      [] s = "X*201" -> [i \in 1 .. MaxNameLength + 1 |-> "X"]
      [] s = "9*50" -> [i \in 1 .. MaxSkuLength |-> "9"]
      [] s = "9*51" -> [i \in 1 .. MaxSkuLength + 1 |-> "9"]

\* The strings of the model, and the string with the given characters.
Strings ==
    {"", "A", "B", "D", "a", "_", "S1", "S2", "s1", "S-1", "S_1",
     "X*200", "X*201", "9*50", "9*51"}
Str(chars) == CHOOSE s \in Strings : Chars(s) = chars

\* Case folding of one character, as ILIKE compares.
lower(c) ==
    CASE c = "A" -> "a"
      [] c = "B" -> "b"
      [] c = "D" -> "d"
      [] c = "S" -> "s"
      [] c = "X" -> "x"
      [] OTHER -> c

\* str.upper(), character by character
upper_char(c) ==
    CASE c = "a" -> "A"
      [] c = "s" -> "S"
      [] OTHER -> c
upper(s) == Str([i \in DOMAIN Chars(s) |-> upper_char(Chars(s)[i])])

\* text LIKE pattern, case-insensitively: % stands for any run of characters,
\* _ for any one character.
RECURSIVE Like(_, _)
Like(text, pattern) ==
    IF pattern = << >> THEN text = << >>
    ELSE IF Head(pattern) = "%"
    THEN Like(text, Tail(pattern)) \/ (text # << >> /\ Like(Tail(text), pattern))
    ELSE /\ text # << >>
         /\ Head(pattern) = "_" \/ lower(Head(pattern)) = lower(Head(text))
         /\ Like(Tail(text), Tail(pattern))

\* Product.name.ilike(f"%{search}%")
ilike(name, search) == Like(Chars(name), << "%" >> \o Chars(search) \o << "%" >>)

\* The rows the filtered query of list selects: a filter given as None, or a
\* search given as "", is falsy and is not applied.
Matching(rows, category_id, search) ==
    {r \in rows :
        /\ category_id # None => r.category_id = category_id
        /\ (search # None /\ search # Some("")) =>
              (r.name # None /\ ilike(r.name[1], search[1]))}

\* The orders in which order_by(Product.created_at.desc()) may deliver a set
\* of rows: every arrangement with the creation times descending; rows with
\* equal creation times come in whatever order the database picks.
Orderings(rows) ==
    {order \in [1 .. Cardinality(rows) -> rows] :
        /\ \A i \in DOMAIN order : \A j \in DOMAIN order :
              i # j => order[i] # order[j]
        /\ \A i \in DOMAIN order : \A j \in DOMAIN order :
              i < j => order[i].created_at >= order[j].created_at}

\* .offset(skip).limit(limit) of an ordered result
Page(order, skip, limit) ==
    LET last == IF skip + limit < Len(order) THEN skip + limit ELSE Len(order)
    IN  SubSeq(order, skip + 1, last)

\* The columns a new Product(**data.model_dump(), created_by=...) gets, with
\* the mapped defaults and the server default of created_at.
Product(data, created_by, id, at) ==
    [id |-> id,
     name |-> Some(data.name),
     description |-> data.description,
     sku |-> data.sku,
     price |-> Some(data.price),
     quantity |-> DefaultQuantity,
     is_active |-> TRUE,
     is_published |-> FALSE,
     published_at |-> None,
     category_id |-> Some(data.category_id),
     created_by |-> Some(created_by),
     updated_by |-> None,
     created_at |-> at]

Columns ==
    {"id", "name", "description", "sku", "price", "quantity", "is_active",
     "is_published", "published_at", "category_id", "created_by", "updated_by",
     "created_at"}

\* The row the table keeps for a session object: its mapped columns only.
Persisted(obj) == [c \in Columns |-> Stored(obj)[c]]

\* ---------------------------------------------------------- pydantic schemas
\* Field(min_length=1, max_length=200) of name
name_ok(name) ==
    Len(Chars(name)) >= MinNameLength /\ Len(Chars(name)) <= MaxNameLength

\* Field(default=None, max_length=2000) of description
description_ok(description) ==
    description = None \/ Len(Chars(description[1])) <= MaxDescriptionLength

\* Variant: Field(ge=0, decimal_places=2).
price_ok_ge(price) == price >= 0 /\ price % MillsPerCent = 0

\* Variant: Field(gt=0), any number of decimal places.
price_ok_any_places(price) == price > 0

\* Field(gt=0, decimal_places=2) of price
price_ok(price) == price > 0 /\ price % MillsPerCent = 0

\* Variant: the pattern ^[A-Za-z0-9-]+$, which lets lowercase letters through
\* to the normalizer.
sku_ok_any_case(sku) ==
    /\ Len(Chars(sku)) >= 1
    /\ Len(Chars(sku)) <= MaxSkuLength
    /\ \A i \in DOMAIN Chars(sku) :
          Chars(sku)[i] \in {"A", "B", "D", "S", "X", "a", "s", "1", "2", "9", "-"}

\* Field(pattern=r"^[A-Z0-9-]+$", max_length=50) of sku
sku_ok(sku) ==
    /\ Len(Chars(sku)) >= 1
    /\ Len(Chars(sku)) <= MaxSkuLength
    /\ \A i \in DOMAIN Chars(sku) :
          Chars(sku)[i] \in {"A", "B", "D", "S", "X", "1", "2", "9", "-"}

\* Variant: a normalizer that folds to lower case.
lowercase_sku(v) == Str([i \in DOMAIN Chars(v) |-> lower(Chars(v)[i])])

\* ProductCreate.uppercase_sku, run on a sku that passed the field's checks
uppercase_sku(v) == upper(v)

\* ProductCreate(**body): the validated model, or None when pydantic raises
\* its validation error.
ProductCreate(body) ==
    IF /\ name_ok(body.name)
       /\ description_ok(body.description)
       /\ price_ok(body.price)
       /\ sku_ok(body.sku)
    THEN Some([body EXCEPT !.sku = uppercase_sku(body.sku)])
    ELSE None

\* ProductUpdate(**body): every field may be None; the constraints of name
\* and price apply to the values that are not.
ProductUpdate_validate(body) ==
    IF /\ body.name = None \/ name_ok(body.name[1])
       /\ body.price = None \/ price_ok(body.price[1])
    THEN Some(body)
    ELSE None

\* Variant: the validator refusing a maximum equal to the minimum.
max_price_strictly_greater(v, data) ==
    ~(v # None /\ data.min_price # None /\ v[1] <= data.min_price[1])

\* ProductQueryParams.max_price_greater_than_min: data holds the fields
\* validated before max_price, a field that failed its own check is not in it.
max_price_greater_than_min(v, data) ==
    ~(v # None /\ data.min_price # None /\ v[1] < data.min_price[1])

\* ProductQueryParams(**query), or None when pydantic raises
ProductQueryParams(query) ==
    LET skip_ok == query.skip >= 0
        limit_ok == query.limit >= MinLimit /\ query.limit <= MaxLimit
        min_ok == query.min_price = None \/ query.min_price[1] >= 0
        max_ok == query.max_price = None \/ query.max_price[1] >= 0
        search_ok == query.search = None \/ Len(Chars(query.search[1])) >= 1
        data == [min_price |-> IF min_ok THEN query.min_price ELSE None]
    IN  IF /\ skip_ok /\ limit_ok /\ min_ok /\ max_ok /\ search_ok
           /\ max_price_greater_than_min(query.max_price, data)
        THEN Some(query)
        ELSE None

\* ------------------------------------------------------------ ProductService
\* What one service call did: the table afterwards, the error it raised, the
\* event it logged, the session calls it issued and the value it returned.
Outcome(rows, err, event, issued, value) ==
    [rows |-> rows, raised |-> err, logged |-> event, dbcalls |-> issued,
     returned |-> value]

\* ProductService.get_by_id
get_by_id(rows, product_id) ==
    LET found == select_by_id(rows, product_id) IN
    IF found = None
    THEN Outcome(rows, NotFoundError(product_id), NoEvent, << "execute" >>, None)
    ELSE Outcome(rows, NoError, NoEvent, << "execute" >>, found)

\* Variant: list counting the rows of the page it returns.
list_total_of_page(rows, skip, limit, category_id, search, order) ==
    Outcome(rows, NoError, NoEvent, << "execute", "execute" >>,
            Some([items |-> Page(order, skip, limit),
                  total |-> Len(Page(order, skip, limit))]))

\* ProductService.list: the count over the filtered query, then the page of
\* the filtered query in the order the database delivers it.
list(rows, skip, limit, category_id, search, order) ==
    LET total == Cardinality(Matching(rows, category_id, search))
    IN  Outcome(rows, NoError, NoEvent, << "execute", "execute" >>,
                Some([items |-> Page(order, skip, limit), total |-> total]))

\* Variant: data.model_dump(), which also dumps the fields left at their default.
model_dump_all(data) == [f \in UpdatableFields |-> data[f]]

\* Variant: data.model_dump(exclude_none=True), which drops a sent null.
model_dump_exclude_none(data) ==
    [f \in {g \in UpdatableFields : data[g] # None} |-> data[f]]

\* data.model_dump(exclude_unset=True)
model_dump_exclude_unset(data) == [f \in data.fields_set |-> data[f]]

\* Variant: the setattr loop also putting the publication columns back to
\* their defaults.
setattrs_resets_publication(product, update_data) ==
    [a \in DOMAIN product |->
        IF a \in DOMAIN update_data THEN update_data[a]
        ELSE IF a = "is_published" THEN FALSE
        ELSE IF a = "published_at" THEN None
        ELSE product[a]]

\* for field, value in update_data.items(): setattr(product, field, value)
setattrs(product, update_data) ==
    [a \in DOMAIN product |->
        IF a \in DOMAIN update_data THEN update_data[a] ELSE product[a]]

\* Variant: create without the existence check.
create_validate_no_sku_check(rows, data) ==
    IF data.price < MinPrice
    THEN Outcome(rows, ValidationError("InvalidPrice"), NoEvent, << >>, None)
    ELSE Outcome(rows, NoError, NoEvent, << >>, None)

\* Variant: create rejecting only the prices that are not positive.
create_validate_positive_only(rows, data) ==
    IF data.price <= 0
    THEN Outcome(rows, ValidationError("InvalidPrice"), NoEvent, << >>, None)
    ELSE LET existing == get_by_sku(rows, data.sku) IN
         IF existing # None
         THEN Outcome(rows, ConflictError("DuplicateSKU", data.sku, existing[1].id),
                      NoEvent, << "execute" >>, None)
         ELSE Outcome(rows, NoError, NoEvent, << "execute" >>, None)

\* Variant: create looking the sku up before it tests the price.
create_validate_sku_first(rows, data) ==
    LET existing == get_by_sku(rows, data.sku) IN
    IF existing # None
    THEN Outcome(rows, ConflictError("DuplicateSKU", data.sku, existing[1].id),
                 NoEvent, << "execute" >>, None)
    ELSE IF data.price < MinPrice
    THEN Outcome(rows, ValidationError("InvalidPrice"), NoEvent, << "execute" >>, None)
    ELSE Outcome(rows, NoError, NoEvent, << "execute" >>, None)

\* create, up to the existence check: the error it raises there, if any
create_validate(rows, data) ==
    IF data.price < MinPrice
    THEN Outcome(rows, ValidationError("InvalidPrice"), NoEvent, << >>, None)
    ELSE LET existing == get_by_sku(rows, data.sku) IN
         IF existing # None
         THEN Outcome(rows, ConflictError("DuplicateSKU", data.sku, existing[1].id),
                      NoEvent, << "execute" >>, None)
         ELSE Outcome(rows, NoError, NoEvent, << "execute" >>, None)

\* Variant: create logging product_created before it commits.
create_persist_logs_first(rows, data, created_by, id, at) ==
    LET product == Product(data, created_by, id, at)
        newrows == rows \cup {Persisted(product)}
        broken  == Violated(newrows)
    IN  IF broken # ""
        THEN Outcome(rows, IntegrityError(broken),
                     product_created(id, product.sku, created_by),
                     << "execute", "add", "commit" >>, None)
        ELSE Outcome(newrows, NoError, product_created(id, product.sku, created_by),
                     << "execute", "add", "commit", "refresh" >>,
                     Some(Persisted(product)))

\* create, from Product(...) on: add, commit, refresh, log
create_persist(rows, data, created_by, id, at) ==
    LET product == Product(data, created_by, id, at)
        newrows == rows \cup {Persisted(product)}
        broken  == Violated(newrows)
    IN  IF broken # ""
        THEN Outcome(rows, IntegrityError(broken), NoEvent,
                     << "execute", "add", "commit" >>, None)
        ELSE Outcome(newrows, NoError, product_created(id, product.sku, created_by),
                     << "execute", "add", "commit", "refresh" >>,
                     Some(Persisted(product)))

\* Variant: update returning the product untouched when the payload sets no
\* field.
update_skips_empty_payload(rows, product_id, data, updated_by) ==
    LET found == select_by_id(rows, product_id) IN
    IF found = None
    THEN Outcome(rows, NotFoundError(product_id), NoEvent, << "execute" >>, None)
    ELSE LET update_data == model_dump_exclude_unset(data)
             product == [setattrs(found[1], update_data)
                            EXCEPT !.updated_by = Some(updated_by)]
             newrows == (rows \ {found[1]}) \cup {Persisted(product)}
             broken  == Violated(newrows)
         IN  IF DOMAIN update_data = {}
             THEN Outcome(rows, NoError,
                          product_updated(product_id, {}, updated_by),
                          << "execute" >>, found)
             ELSE IF broken # ""
             THEN Outcome(rows, IntegrityError(broken), NoEvent,
                          << "execute", "commit" >>, None)
             ELSE Outcome(newrows, NoError,
                          product_updated(product_id, DOMAIN update_data, updated_by),
                          << "execute", "commit", "refresh" >>,
                          Some(Persisted(product)))

\* ProductService.update

update(rows, product_id, data, updated_by) ==
    LET found == select_by_id(rows, product_id) IN
    IF found = None
    THEN Outcome(rows, NotFoundError(product_id), NoEvent, << "execute" >>, None)
    ELSE LET update_data == model_dump_exclude_unset(data)
             product == [setattrs(found[1], update_data)
                            EXCEPT !.updated_by = Some(updated_by)]
             newrows == (rows \ {found[1]}) \cup {Persisted(product)}
             broken  == Violated(newrows)
         IN  IF broken # ""
             THEN Outcome(rows, IntegrityError(broken), NoEvent,
                          << "execute", "commit" >>, None)
             ELSE Outcome(newrows, NoError,
                          product_updated(product_id, DOMAIN update_data, updated_by),
                          << "execute", "commit", "refresh" >>,
                          Some(Persisted(product)))

\* Variant: delete that reports the deletion and leaves the row in the table.
delete_keeps_row(rows, product_id) ==
    LET found == select_by_id(rows, product_id) IN
    IF found = None
    THEN Outcome(rows, NotFoundError(product_id), NoEvent, << "execute" >>, None)
    ELSE Outcome(rows, NoError, product_deleted(product_id),
                 << "execute", "delete" >>, None)

\* Variant: delete that does not stop at a missing product.
delete_unchecked(rows, product_id) ==
    LET found == select_by_id(rows, product_id) IN
    IF found = None
    THEN Outcome(rows, NotFoundError(product_id), NoEvent,
                 << "execute", "delete", "commit" >>, None)
    ELSE Outcome(rows \ {found[1]}, NoError, product_deleted(product_id),
                 << "execute", "delete", "commit" >>, None)

delete(rows, product_id) ==
    LET found == select_by_id(rows, product_id) IN
    IF found = None
    THEN Outcome(rows, NotFoundError(product_id), NoEvent, << "execute" >>, None)
    ELSE Outcome(rows \ {found[1]}, NoError, product_deleted(product_id),
                 << "execute", "delete", "commit" >>, None)

\* Variant: publish that marks and commits before it looks at the description.
publish_commit_first(rows, product_id, published_by, at) ==
    LET found == select_by_id(rows, product_id) IN
    IF found = None
    THEN Outcome(rows, NotFoundError(product_id), NoEvent, << "execute" >>, None)
    ELSE LET product ==
                 [a \in Columns \cup {"published_by"} |->
                    IF a = "is_published" THEN TRUE
                    ELSE IF a = "published_at" THEN Some(at)
                    ELSE IF a = "published_by" THEN Some(published_by)
                    ELSE found[1][a]]
             newrows == (rows \ {found[1]}) \cup {Persisted(product)}
         IN  IF found[1].description = None \/ found[1].description = Some("")
             THEN Outcome(newrows, ValidationError("MissingDescription"), NoEvent,
                          << "execute", "commit" >>, None)
             ELSE Outcome(newrows, NoError,
                          product_published(product_id, published_by),
                          << "execute", "commit", "refresh" >>, Some(product))

\* Variant: publish flipping is_published instead of setting it.
publish_toggles(rows, product_id, published_by, at) ==
    LET found == select_by_id(rows, product_id) IN
    IF found = None
    THEN Outcome(rows, NotFoundError(product_id), NoEvent, << "execute" >>, None)
    ELSE IF found[1].description = None \/ found[1].description = Some("")
    THEN Outcome(rows, ValidationError("MissingDescription"), NoEvent,
                 << "execute" >>, None)
    ELSE LET product ==
                 [a \in Columns \cup {"published_by"} |->
                    IF a = "is_published" THEN ~ found[1].is_published
                    ELSE IF a = "published_at" THEN Some(at)
                    ELSE IF a = "published_by" THEN Some(published_by)
                    ELSE found[1][a]]
             newrows == (rows \ {found[1]}) \cup {Persisted(product)}
         IN  Outcome(newrows, NoError, product_published(product_id, published_by),
                     << "execute", "commit", "refresh" >>, Some(product))

\* publish sets three attributes on the loaded object; published_by is not a
\* mapped column of Product, so it lives on the returned object only.
publish(rows, product_id, published_by, at) ==
    LET found == select_by_id(rows, product_id) IN
    IF found = None
    THEN Outcome(rows, NotFoundError(product_id), NoEvent, << "execute" >>, None)
    ELSE IF found[1].description = None \/ found[1].description = Some("")
    THEN Outcome(rows, ValidationError("MissingDescription"), NoEvent,
                 << "execute" >>, None)
    ELSE LET product ==
                 [a \in Columns \cup {"published_by"} |->
                    IF a = "is_published" THEN TRUE
                    ELSE IF a = "published_at" THEN Some(at)
                    ELSE IF a = "published_by" THEN Some(published_by)
                    ELSE found[1][a]]
             newrows == (rows \ {found[1]}) \cup {Persisted(product)}
         IN  Outcome(newrows, NoError, product_published(product_id, published_by),
                     << "execute", "commit", "refresh" >>, Some(product))

\* Product.price * multiplier, the multiplier in tenths
times(price, multiplier) == (price * multiplier) \div 10

\* Variant: the UPDATE without its WHERE clause.
bulk_update_prices_everywhere(rows, category_id, multiplier) ==
    LET newrows == {Persisted([r EXCEPT !.price = Some(times(r.price[1], multiplier))]) :
                        r \in rows}
        broken  == Violated(newrows)
        count   == Cardinality(rows)
    IN  IF broken # ""
        THEN Outcome(rows, IntegrityError(broken), NoEvent, << "execute" >>, None)
        ELSE Outcome(newrows, NoError,
                     bulk_prices_updated(category_id, multiplier, count),
                     << "execute", "commit" >>, Some(count))

bulk_update_prices(rows, category_id, multiplier) ==
    LET matched == {r \in rows : r.category_id = Some(category_id)}
        newrows == (rows \ matched) \cup
                   {Persisted([r EXCEPT !.price = Some(times(r.price[1], multiplier))]) :
                        r \in matched}
        broken  == Violated(newrows)
        count   == Cardinality(matched)
    IN  IF broken # ""
        THEN Outcome(rows, IntegrityError(broken), NoEvent, << "execute" >>, None)
        ELSE Outcome(newrows, NoError,
                     bulk_prices_updated(category_id, multiplier, count),
                     << "execute", "commit" >>, Some(count))

\* ------------------------------------------------------------------ actions
\* A call of the service: the operation and the arguments it was given, None
\* for those the operation does not take.
NoCall ==
    [op |-> "none", product_id |-> None, data |-> None, actor |-> None,
     category_id |-> None, multiplier |-> None, sku |-> None, skip |-> None,
     limit |-> None, search |-> None]
CreateCall(data, created_by) ==
    [NoCall EXCEPT !.op = "create", !.data = Some(data), !.actor = Some(created_by)]
UpdateCall(product_id, data, updated_by) ==
    [NoCall EXCEPT !.op = "update", !.product_id = Some(product_id),
                   !.data = Some(data), !.actor = Some(updated_by)]
DeleteCall(product_id) ==
    [NoCall EXCEPT !.op = "delete", !.product_id = Some(product_id)]
PublishCall(product_id, published_by) ==
    [NoCall EXCEPT !.op = "publish", !.product_id = Some(product_id),
                   !.actor = Some(published_by)]
BulkCall(category_id, multiplier) ==
    [NoCall EXCEPT !.op = "bulk_update_prices", !.category_id = Some(category_id),
                   !.multiplier = Some(multiplier)]

GetByIdCall(product_id) ==
    [NoCall EXCEPT !.op = "get_by_id", !.product_id = Some(product_id)]
GetBySkuCall(sku) ==
    [NoCall EXCEPT !.op = "get_by_sku", !.sku = Some(sku)]
ListCall(skip, limit, category_id, search) ==
    [NoCall EXCEPT !.op = "list", !.skip = Some(skip), !.limit = Some(limit),
                   !.category_id = category_id, !.search = search]

Idle == [data |-> None, created_by |-> None]

Init ==
    /\ products = {}
    /\ nextId = 1
    /\ calls = 0
    /\ pc = [w \in Workers |-> "idle"]
    /\ pending = [w \in Workers |-> Idle]
    /\ call = NoCall
    /\ raised = NoError
    /\ logged = NoEvent
    /\ dbcalls = << >>
    /\ returned = None

Finish(made, out) ==
    /\ call' = made
    /\ products' = out.rows
    /\ raised' = out.raised
    /\ logged' = out.logged
    /\ dbcalls' = out.dbcalls
    /\ returned' = out.returned

\* func.now(): database time, counted in service calls started, so that calls
\* made one after the other read increasing times.
now == calls

\* A new call starts, within the call budget of the model.
Start ==
    /\ calls < MaxCalls
    /\ calls' = calls + 1

InFlight == Cardinality({w \in Workers : pc[w] = "checked"})

\* A create call runs to its existence check, and is over if that raises.
CreateCheck(w, data, created_by) ==
    /\ pc[w] = "idle"
    /\ Start
    /\ LET out == create_validate(products, data) IN
       IF out.raised # NoError
       THEN /\ Finish(CreateCall(data, created_by), out)
            /\ UNCHANGED << nextId, pc, pending >>
       ELSE /\ nextId + InFlight <= MaxProducts
            /\ pc' = [pc EXCEPT ![w] = "checked"]
            /\ pending' = [pending EXCEPT ![w] =
                              [data |-> Some(data), created_by |-> Some(created_by)]]
            /\ UNCHANGED << products, nextId, call, raised, logged, dbcalls, returned >>

\* The create call in flight adds its product and commits.
CreateCommit(w) ==
    /\ pc[w] = "checked"
    /\ LET out == create_persist(products, pending[w].data[1],
                                 pending[w].created_by[1], nextId, now) IN
       /\ Finish(CreateCall(pending[w].data[1], pending[w].created_by[1]), out)
       /\ nextId' = IF out.raised = NoError THEN nextId + 1 ELSE nextId
    /\ pc' = [pc EXCEPT ![w] = "idle"]
    /\ pending' = [pending EXCEPT ![w] = Idle]
    /\ UNCHANGED calls

Update(product_id, data, updated_by) ==
    /\ Start
    /\ Finish(UpdateCall(product_id, data, updated_by),
              update(products, product_id, data, updated_by))
    /\ UNCHANGED << nextId, pc, pending >>

Delete(product_id) ==
    /\ Start
    /\ Finish(DeleteCall(product_id), delete(products, product_id))
    /\ UNCHANGED << nextId, pc, pending >>

Publish(product_id, published_by) ==
    /\ Start
    /\ Finish(PublishCall(product_id, published_by),
              publish(products, product_id, published_by, now'))
    /\ UNCHANGED << nextId, pc, pending >>

BulkUpdatePrices(category_id, multiplier) ==
    /\ Start
    /\ \A r \in products :
          r.category_id = Some(category_id) => times(r.price[1], multiplier) <= MaxPrice
    /\ Finish(BulkCall(category_id, multiplier),
              bulk_update_prices(products, category_id, multiplier))
    /\ UNCHANGED << nextId, pc, pending >>

\* ProductService.create as one call: validate, then persist.
create(rows, data, created_by, id, at) ==
    LET checked == create_validate(rows, data) IN
    IF checked.raised # NoError THEN checked
    ELSE create_persist(rows, data, created_by, id, at)

Create(data, created_by) ==
    /\ Start
    /\ LET out == create(products, data, created_by, nextId, now') IN
       /\ out.raised = NoError => nextId <= MaxProducts
       /\ Finish(CreateCall(data, created_by), out)
       /\ nextId' = IF out.raised = NoError THEN nextId + 1 ELSE nextId
    /\ UNCHANGED << pc, pending >>

\* The calls of the service, each run to completion before the next starts.
Next ==
    \/ \E data \in CreateRequests, a \in Creators : Create(data, a)
    \/ \E id \in ProductIds, data \in ProductUpdates, a \in Updaters : Update(id, data, a)
    \/ \E id \in ProductIds : Delete(id)
    \/ \E id \in ProductIds, a \in Publishers : Publish(id, a)
    \/ \E c \in Categories, m \in Multipliers : BulkUpdatePrices(c, m)

Spec == Init /\ [][Next]_vars

\* Requests handled concurrently: two create calls interleave at their awaits
\* (the existence check, then the commit), among the other calls.
SingleFieldUpdates == {u \in ProductUpdates : Cardinality(u.fields_set) <= 1}

NextRace ==
    \/ \E w \in Workers, data \in CreateRequests, a \in Creators : CreateCheck(w, data, a)
    \/ \E w \in Workers : CreateCommit(w)
    \/ \E id \in ProductIds, data \in SingleFieldUpdates, a \in Updaters : Update(id, data, a)
    \/ \E id \in ProductIds : Delete(id)
    \/ \E id \in ProductIds, a \in Publishers : Publish(id, a)
    \/ \E c \in Categories, m \in Multipliers : BulkUpdatePrices(c, m)

SpecRace == Init /\ [][NextRace]_vars

\* The reading calls of the service.
GetById(product_id) ==
    /\ Start
    /\ Finish(GetByIdCall(product_id), get_by_id(products, product_id))
    /\ UNCHANGED << nextId, pc, pending >>

GetBySku(sku) ==
    /\ Start
    /\ Finish(GetBySkuCall(sku),
              Outcome(products, NoError, NoEvent, << "execute" >>,
                      get_by_sku(products, sku)))
    /\ UNCHANGED << nextId, pc, pending >>

List(skip, limit, category_id, search) ==
    /\ Start
    /\ \E order \in Orderings(Matching(products, category_id, search)) :
          Finish(ListCall(skip, limit, category_id, search),
                 list(products, skip, limit, category_id, search, order))
    /\ UNCHANGED << nextId, pc, pending >>

\* The service read as well as written, its calls overlapping as in NextRace.
NextReads ==
    \/ NextRace
    \/ \E id \in ProductIds : GetById(id)
    \/ \E sku \in Skus : GetBySku(sku)
    \/ \E skip \in Skips, limit \in Limits, c \in CategoryFilters, q \in Searches :
          List(skip, limit, c, q)

SpecReads == Init /\ [][NextReads]_vars

\* -------------------------------------------------------------- the router
\* The request bodies of POST /products, before validation.
PostNames == {"", "A"}
PostSkus == {"S1", "S2", "s1"}
PostPrices == {0, 5, 10, 15}
PostBodies ==
    { [name |-> n, description |-> d, price |-> p, sku |-> k, category_id |-> "c1"] :
        n \in PostNames, d \in CreateDescriptions, p \in PostPrices, k \in PostSkus }

\* FastAPI's error for a body or query that fails its schema.
RequestValidationError ==
    [kind |-> "RequestValidationError", code |-> "", details |-> NoDetails]

\* The status the application's exception handlers give an error kind.
status_code_of(err) ==
    CASE err.kind = "NotFoundError" -> 404
      [] err.kind = "ConflictError" -> 409
      [] err.kind = "ValidationError" -> 422
      [] err.kind = "RequestValidationError" -> HTTP_422_UNPROCESSABLE_ENTITY
      [] OTHER -> 500

\* ProductResponse.model_validate(product): the attributes the schema names
ResponseFields ==
    {"id", "name", "description", "sku", "price", "category_id", "is_published",
     "created_at", "created_by"}
ProductResponse(product) == [f \in ResponseFields |-> product[f]]

\* Variant: has_more comparing the length of the page alone with the total.
ProductListResponse_page_length_only(items, total, skip, limit) ==
    [items |-> [i \in DOMAIN items |-> ProductResponse(items[i])],
     total |-> total, skip |-> skip, limit |-> limit,
     has_more |-> Len(items) < total]

\* ProductListResponse(items=..., total=..., skip=..., limit=...)
ProductListResponse(items, total, skip, limit) ==
    [items |-> [i \in DOMAIN items |-> ProductResponse(items[i])],
     total |-> total, skip |-> skip, limit |-> limit,
     has_more |-> skip + Len(items) < total]

\* What the client gets: a handler has no try/except, so an error of the
\* service leaves it and is answered with the status of its kind; otherwise
\* the route's status and the handler's return value.
Answer(out, status_code, body) ==
    IF out.raised # NoError
    THEN [out EXCEPT !.returned = Some([status |-> status_code_of(out.raised),
                                         body |-> None])]
    ELSE [out EXCEPT !.returned = Some([status |-> status_code, body |-> body])]

\* A request whose body or query fails validation does not reach the handler.
Unprocessable(rows) ==
    Answer(Outcome(rows, RequestValidationError, NoEvent, << >>, None),
           HTTP_422_UNPROCESSABLE_ENTITY, None)

list_products(rows, skip, limit, category_id, search, order) ==
    IF ~(skip >= 0 /\ limit >= MinLimit /\ limit <= MaxLimit
          /\ (search = None \/ Len(Chars(search[1])) >= 1))
    THEN Unprocessable(rows)
    ELSE LET out == list(rows, skip, limit, category_id, search, order) IN
         Answer(out, HTTP_200_OK,
                Some(ProductListResponse(out.returned[1].items, out.returned[1].total,
                                         skip, limit)))

get_product(rows, product_id) ==
    LET out == get_by_id(rows, product_id) IN
    Answer(out, HTTP_200_OK,
           IF out.returned = None THEN None ELSE Some(ProductResponse(out.returned[1])))

create_product(rows, body, current_user, id, at) ==
    LET data == ProductCreate(body) IN
    IF data = None THEN Unprocessable(rows)
    ELSE LET out == create(rows, data[1], current_user, id, at) IN
         Answer(out, HTTP_201_CREATED,
                IF out.returned = None THEN None
                ELSE Some(ProductResponse(out.returned[1])))

update_product(rows, product_id, body, current_user) ==
    LET data == ProductUpdate_validate(body) IN
    IF data = None THEN Unprocessable(rows)
    ELSE LET out == update(rows, product_id, data[1], current_user) IN
         Answer(out, HTTP_200_OK,
                IF out.returned = None THEN None
                ELSE Some(ProductResponse(out.returned[1])))

\* Variant: a handler that catches the service's error and answers 204.
delete_product_swallowing(rows, product_id) ==
    LET out == delete(rows, product_id) IN
    [out EXCEPT !.returned = Some([status |-> HTTP_204_NO_CONTENT, body |-> None])]

delete_product(rows, product_id) ==
    Answer(delete(rows, product_id), HTTP_204_NO_CONTENT, None)

publish_product(rows, product_id, current_user, at) ==
    LET out == publish(rows, product_id, current_user, at) IN
    Answer(out, HTTP_200_OK,
           IF out.returned = None THEN None
           ELSE Some(ProductResponse(out.returned[1])))

\* The requests, each handled to its response before the next arrives.
Request(method, path) == [NoCall EXCEPT !.op = method \o " " \o path]

ListProducts(skip, limit, category_id, search) ==
    /\ Start
    /\ \E order \in Orderings(Matching(products, category_id, search)) :
          Finish([Request("GET", "/products") EXCEPT
                     !.skip = Some(skip), !.limit = Some(limit),
                     !.category_id = category_id, !.search = search],
                 list_products(products, skip, limit, category_id, search, order))
    /\ UNCHANGED << nextId, pc, pending >>

GetProduct(product_id) ==
    /\ Start
    /\ Finish([Request("GET", "/products/{product_id}") EXCEPT
                  !.product_id = Some(product_id)],
              get_product(products, product_id))
    /\ UNCHANGED << nextId, pc, pending >>

CreateProduct(body, current_user) ==
    /\ Start
    /\ LET out == create_product(products, body, current_user, nextId, now') IN
       /\ out.raised = NoError => nextId <= MaxProducts
       /\ Finish([Request("POST", "/products") EXCEPT
                     !.data = Some(body), !.actor = Some(current_user)], out)
       /\ nextId' = IF out.raised = NoError THEN nextId + 1 ELSE nextId
    /\ UNCHANGED << pc, pending >>

UpdateProduct(product_id, body, current_user) ==
    /\ Start
    /\ Finish([Request("PATCH", "/products/{product_id}") EXCEPT
                  !.product_id = Some(product_id), !.data = Some(body),
                  !.actor = Some(current_user)],
              update_product(products, product_id, body, current_user))
    /\ UNCHANGED << nextId, pc, pending >>

DeleteProduct(product_id) ==
    /\ Start
    /\ Finish([Request("DELETE", "/products/{product_id}") EXCEPT
                  !.product_id = Some(product_id)],
              delete_product(products, product_id))
    /\ UNCHANGED << nextId, pc, pending >>

PublishProduct(product_id, current_user) ==
    /\ Start
    /\ Finish([Request("POST", "/products/{product_id}/publish") EXCEPT
                  !.product_id = Some(product_id), !.actor = Some(current_user)],
              publish_product(products, product_id, current_user, now'))
    /\ UNCHANGED << nextId, pc, pending >>

\* The query strings of GET /products.
QuerySkips == {-1} \cup Skips
QueryLimits == {0} \cup Limits

NextHttp ==
    \/ \E skip \in QuerySkips, limit \in QueryLimits, c \in CategoryFilters,
          q \in Searches : ListProducts(skip, limit, c, q)
    \/ \E id \in ProductIds : GetProduct(id)
    \/ \E body \in PostBodies, u \in Creators : CreateProduct(body, u)
    \/ \E id \in ProductIds, body \in SingleFieldUpdates, u \in Updaters :
          UpdateProduct(id, body, u)
    \/ \E id \in ProductIds : DeleteProduct(id)
    \/ \E id \in ProductIds, u \in Publishers : PublishProduct(id, u)

SpecHttp == Init /\ [][NextHttp]_vars

\* ------------------------------------------------- the schemas on their own
\* The inputs handed to the schemas.
SchemaNames == {"", "A", "X*200", "X*201"}
SchemaSkus == {"", "S1", "s1", "S-1", "S_1", "9*50", "9*51"}
SchemaPrices == {-1000, -10, 0, 5, 10, 15, 20, 999999990}
SchemaBodies ==
    { [name |-> n, description |-> d, price |-> p, sku |-> k, category_id |-> "c1"] :
        n \in SchemaNames, d \in CreateDescriptions, p \in SchemaPrices,
        k \in SchemaSkus }
QueryPrices == {None, Some(-10), Some(0), Some(10), Some(20)}
Queries ==
    { [skip |-> s, limit |-> l, min_price |-> lo, max_price |-> hi, search |-> q] :
        s \in {-1, 0}, l \in {0, MinLimit, MaxLimit, MaxLimit + 1},
        lo \in QueryPrices, hi \in QueryPrices, q \in {None, Some(""), Some("a")} }

\* pydantic's error for input a schema refuses.
PydanticValidationError ==
    [kind |-> "PydanticValidationError", code |-> "", details |-> NoDetails]

\* A schema is applied to an input: the validated model is returned, or the
\* validation error raised.
Validate(schema, input, validated) ==
    /\ call' = [NoCall EXCEPT !.op = schema, !.data = Some(input)]
    /\ returned' = validated
    /\ raised' = IF validated = None THEN PydanticValidationError ELSE NoError
    /\ UNCHANGED << products, nextId, calls, pc, pending, logged, dbcalls >>

NextSchema ==
    \/ \E body \in SchemaBodies : Validate("ProductCreate", body, ProductCreate(body))
    \/ \E body \in ProductUpdates :
          Validate("ProductUpdate", body, ProductUpdate_validate(body))
    \/ \E query \in Queries :
          Validate("ProductQueryParams", query, ProductQueryParams(query))

SpecSchema == Init /\ [][NextSchema]_vars

\* ================================================================== claims
\* The row with the given id, in a table that holds one.
Row(rows, product_id) == select_by_id(rows, product_id)[1]

\* The session calls that write: add, delete, commit.
Writes(issued) ==
    {issued[i] : i \in DOMAIN issued} \cap {"add", "delete", "commit"}

\* A step that finishes a call of the given operation.
Finishes(op) ==
    /\ call'.op = op
    /\ calls' # calls \/ pc' # pc
    /\ \A w \in Workers : pc'[w] = "checked" => pc[w] = "checked"

\* C1: after every successful update(id, payload, updated_by) of an existing
\* product, each updatable field (name, description, price, category_id) that
\* the payload does not send has the value it had before the update.
C1_AbsentFieldsUnchanged ==
    [][ (Finishes("update") /\ raised' = NoError) =>
           \A f \in UpdatableFields \ call'.data[1].fields_set :
              Row(products', call'.product_id[1])[f]
                 = Row(products, call'.product_id[1])[f] ]_vars

\* C1 witness: an update that sent only the name has been applied to a product
\* that still has the description, price and category it was created with.
C1_Witness ==
    \E r \in products :
       /\ call.op = "update"
       /\ call.product_id = Some(r.id)
       /\ call.data[1].fields_set = {"name"}
       /\ raised = NoError
       /\ r.name = Some("B")
       /\ r.price = Some(10)
       /\ r.category_id = Some("c1")
       /\ r.description = Some("D")

C3_Original ==
    [][ (Finishes("create") /\ get_by_sku(products, call'.data[1].sku) # None) =>
           /\ raised' = ConflictError("DuplicateSKU", call'.data[1].sku,
                                      get_by_sku(products, call'.data[1].sku)[1].id)
           /\ products' = products
           /\ Writes(dbcalls') = {} ]_vars

\* C3 amended: every create with a price of at least 0.01 whose sku is the sku
\* of a persisted product fails with ConflictError DuplicateSKU carrying the sku
\* and the existing product's id, and adds and commits nothing.
C3_DuplicateSkuRejected ==
    [][ (Finishes("create") /\ call'.data[1].price >= 10
                            /\ get_by_sku(products, call'.data[1].sku) # None) =>
           /\ raised' = ConflictError("DuplicateSKU", call'.data[1].sku,
                                      get_by_sku(products, call'.data[1].sku)[1].id)
           /\ products' = products
           /\ Writes(dbcalls') = {} ]_vars

\* C3 witness: a create has been refused as DuplicateSKU, naming the one
\* persisted product that has the sku.
C3_Witness ==
    /\ call.op = "create"
    /\ raised.kind = "ConflictError"
    /\ raised.code = "DuplicateSKU"
    /\ Cardinality(products) = 1
    /\ \E r \in products :
          /\ call.data[1].sku = r.sku
          /\ raised.details.sku = Some(r.sku)
          /\ raised.details.existing_id = Some(r.id)

\* C4: every create with a price below 0.01 fails with ValidationError
\* InvalidPrice and persists nothing.
C4_InvalidPriceRejected ==
    [][ (Finishes("create") /\ call'.data[1].price < 10) =>
           /\ raised' = ValidationError("InvalidPrice")
           /\ products' = products
           /\ Writes(dbcalls') = {} ]_vars

\* C4 witness: a create with a price of 0.005 has been refused as InvalidPrice
\* with nothing persisted.
C4_Witness ==
    /\ call.op = "create"
    /\ call.data[1].price = 5
    /\ raised = ValidationError("InvalidPrice")
    /\ products = {}
    /\ dbcalls = << >>

\* C5: in every state reached by create, update, delete, publish and
\* bulk_update_prices calls, no two persisted products have the same sku.
\* Checked with the create calls also overlapping, which includes every run of
\* the calls one at a time.
C5_SkuUnique ==
    \A r1 \in products : \A r2 \in products : r1.id # r2.id => r1.sku # r2.sku

\* C5 witness: two products are persisted, the second one just created.
C5_Witness ==
    /\ Cardinality(products) = 2
    /\ call.op = "create"
    /\ raised = NoError
    /\ \E r \in products : logged.product_id = Some(r.id) /\ r.sku = call.data[1].sku

\* C6: the service holds no lock between its existence check and its insert;
\* when a create that has passed the check commits after a product with its sku
\* has been persisted, the service raises no DuplicateSKU: the table's unique
\* constraint on sku is what refuses the row, and the table is left as it was.
C6_OnlyConstraintStopsDuplicate ==
    [][ \A w \in Workers :
          (/\ pc[w] = "checked"
           /\ pc'[w] = "idle"
           /\ get_by_sku(products, pending[w].data[1].sku) # None) =>
             /\ raised' = IntegrityError("uq_products_sku")
             /\ products' = products ]_vars

\* C6 witness: both create calls have passed the existence check for the same
\* sku and neither has committed.
C6_Witness ==
    /\ pc["w1"] = "checked"
    /\ pc["w2"] = "checked"
    /\ pending["w1"].data[1].sku = pending["w2"].data[1].sku
    /\ get_by_sku(products, pending["w1"].data[1].sku) = None

\* C7 as stated: in every state reached by create, update, publish, delete and
\* bulk_update_prices calls, every persisted product that is published has a
\* description that is neither absent nor empty.
C7_PublishedHasDescription ==
    \A r \in products :
       r.is_published => (r.description # None /\ r.description # Some(""))

\* C8: in every state reached by create, update, publish, delete and
\* bulk_update_prices calls, with any multiplier, every persisted product has a
\* price above zero.
C8_PricePositive ==
    \A r \in products : r.price # None /\ r.price[1] > 0

\* C8 witness: bulk_update_prices with a multiplier of zero or less has reached
\* a category that holds a product, and the table has refused the statement.
C8_Witness ==
    /\ call.op = "bulk_update_prices"
    /\ call.multiplier[1] <= 0
    /\ \E r \in products : r.category_id = call.category_id
    /\ raised = IntegrityError("ck_products_positive_price")

\* The rejections of the service's own rules.
Rejected(err) ==
    \/ err.kind = "NotFoundError"
    \/ err.code \in {"InvalidPrice", "DuplicateSKU", "MissingDescription"}

\* C9: no partial application: whenever create, update or publish is rejected
\* (InvalidPrice, DuplicateSKU, NotFound, MissingDescription) the table after
\* the call is the table before it, and no add, delete or commit was issued.
C9_RejectionChangesNothing ==
    [][ ((Finishes("create") \/ Finishes("update") \/ Finishes("publish"))
           /\ Rejected(raised')) =>
           /\ products' = products
           /\ Writes(dbcalls') = {} ]_vars

\* C9 witness: publish has been refused as MissingDescription and the product
\* it named is persisted, unpublished.
C9_Witness ==
    /\ call.op = "publish"
    /\ raised = ValidationError("MissingDescription")
    /\ \E r \in products :
          /\ call.product_id = Some(r.id)
          /\ ~r.is_published
          /\ r.published_at = None

\* The description is absent or empty.
NoDescription(row) == row.description = None \/ row.description = Some("")

\* C10 as stated: publish(id, actor) of an existing product fails with
\* ValidationError MissingDescription exactly when the description is absent or
\* empty; otherwise it succeeds and the persisted product has is_published =
\* true, the publish timestamp and the actor.
C10_PublishStampsPersisted ==
    [][ (Finishes("publish") /\ select_by_id(products, call'.product_id[1]) # None) =>
           LET before == Row(products, call'.product_id[1]) IN
           /\ (raised' = ValidationError("MissingDescription")) <=> NoDescription(before)
           /\ ~NoDescription(before) =>
                 /\ raised' = NoError
                 /\ LET after == Row(products', call'.product_id[1]) IN
                    /\ after.is_published
                    /\ after.published_at = Some(now')
                    /\ "published_by" \in DOMAIN after
                    /\ after["published_by"] = call'.actor ]_vars

\* C11: for a fixed table and fixed filters (category_id, search), the total
\* that list returns is the same for every skip and limit, and it is the number
\* of products matching the filters, not the number of items on the page.
\* (list leaves the table as it found it, so the state after the call holds the
\* table the call read.)
C11_TotalIndependentOfPage ==
    call.op = "list" =>
       LET hits == Matching(products, call.category_id, call.search) IN
       /\ returned[1].total = Cardinality(hits)
       /\ \A skip \in Skips : \A limit \in Limits : \A order \in Orderings(hits) :
             list(products, skip, limit, call.category_id, call.search,
                  order).returned[1].total = returned[1].total

\* C11 witness: list has returned a page of one item with a total of two.
C11_Witness ==
    /\ call.op = "list"
    /\ call.skip = Some(1)
    /\ returned # None
    /\ returned[1].total = 2
    /\ Len(returned[1].items) = 1

\* The products on a page.
OnPage(page) == {page[i] : i \in DOMAIN page}

\* C12 as stated: over an unchanged table of N products the successive pages
\* list(skip=0, limit=L), list(skip=L, limit=L), ... partition the products:
\* every product is on exactly one page, every page but the last has L items,
\* the last has the remainder, and total = N on every page.
C12_PagesPartition ==
    \A L \in Limits :
       LET N == Cardinality(products)
           K == (N + L - 1) \div L
       IN  \A delivered \in [0 .. K - 1 -> Orderings(products)] :
              LET page(k) == list(products, k * L, L, None, None,
                                  delivered[k]).returned[1]
              IN  /\ \A r \in products :
                        Cardinality({k \in 0 .. K - 1 : r \in OnPage(page(k).items)}) = 1
                  /\ \A k \in 0 .. K - 1 :
                        /\ page(k).total = N
                        /\ Len(page(k).items) = (IF k < K - 1 THEN L ELSE N - (K - 1) * L)

\* C13: for every id that matches no persisted product, get_by_id, update,
\* delete and publish each fail with NotFoundError and change nothing (no add,
\* delete or commit is issued, no event is logged), while get_by_sku for an sku
\* that matches no product returns the empty result and raises no error.
C13_MissingIsNotFound ==
    [][ /\ ((Finishes("get_by_id") \/ Finishes("update") \/ Finishes("delete")
               \/ Finishes("publish"))
             /\ ~ \E r \in products : Some(r.id) = call'.product_id) =>
               /\ raised' = NotFoundError(call'.product_id[1])
               /\ returned' = None
               /\ products' = products
               /\ Writes(dbcalls') = {}
               /\ logged' = NoEvent
        /\ (Finishes("get_by_sku")
             /\ ~ \E r \in products : Some(r.sku) = call'.sku) =>
               /\ raised' = NoError
               /\ returned' = None
               /\ products' = products ]_vars

\* C13 witness: delete of an id that matches none of the persisted products has
\* raised NotFoundError.
C13_Witness ==
    /\ call.op = "delete"
    /\ raised = NotFoundError(call.product_id[1])
    /\ products # {}
    /\ \A r \in products : Some(r.id) # call.product_id

\* No persisted product has the id.
Absent(rows, product_id) == \A r \in rows : r.id # product_id

\* The routes that address one product by its id.
ById ==
    {"GET /products/{product_id}", "PATCH /products/{product_id}",
     "DELETE /products/{product_id}", "POST /products/{product_id}/publish"}

\* C14: lifecycle ordering at the HTTP boundary.  After a successful create
\* (201), get by the returned id succeeds (200) with the created fields; after
\* a successful update of the name only, get returns the new name and the
\* price it returned before; after a successful delete (204) the product is
\* gone, and every later get, update, delete or publish of that id answers 404.
\* (A get, update, delete or publish is a request that reaches the service: a
\* PATCH whose body fails ProductUpdate is answered 422 before any call.)
\* Ids are handed out in increasing order and only to products that were
\* persisted, so an id below nextId with no row is the id of a deleted product.
C14_Lifecycle ==
    [][ /\ (Finishes("POST /products") /\ returned'[1].status = HTTP_201_CREATED) =>
              LET got == get_product(products', returned'[1].body[1].id).returned[1] IN
              /\ got.status = HTTP_200_OK
              /\ got.body[1].name = Some(call'.data[1].name)
              /\ got.body[1].description = call'.data[1].description
              /\ got.body[1].sku = call'.data[1].sku
              /\ got.body[1].price = Some(call'.data[1].price)
              /\ got.body[1].category_id = Some(call'.data[1].category_id)
        /\ (/\ Finishes("PATCH /products/{product_id}")
            /\ returned'[1].status = HTTP_200_OK
            /\ call'.data[1].fields_set = {"name"}) =>
              LET before == get_product(products, call'.product_id[1]).returned[1]
                  after == get_product(products', call'.product_id[1]).returned[1]
              IN  /\ after.status = HTTP_200_OK
                  /\ after.body[1].name = call'.data[1].name
                  /\ after.body[1].price = before.body[1].price
        /\ (/\ Finishes("DELETE /products/{product_id}")
            /\ returned'[1].status = HTTP_204_NO_CONTENT) =>
              /\ ~Absent(products, call'.product_id[1])
              /\ Absent(products', call'.product_id[1])
        /\ \A id \in ProductIds :
              (id < nextId /\ Absent(products, id)) =>
                 /\ Absent(products', id)
                 /\ (/\ call'.op \in ById
                     /\ calls' # calls
                     /\ call'.product_id = Some(id)
                     /\ call'.data # None => ProductUpdate_validate(call'.data[1]) # None) =>
                       /\ raised' = NotFoundError(id)
                       /\ returned'[1].status = 404 ]_vars

\* C14 witness: a product was created and deleted, and the get of its id that
\* followed was answered 404.
C14_Witness ==
    /\ call.op = "GET /products/{product_id}"
    /\ call.product_id = Some(1)
    /\ nextId = 2
    /\ products = {}
    /\ returned = Some([status |-> 404, body |-> None])

\* C16: every failure of the service reaches the client as the status of its
\* kind and never as a success: NotFoundError as 404 (get, patch, delete and
\* publish of a missing id), ConflictError DuplicateSKU as 409 on POST,
\* ValidationError as 422, and a body that fails its schema as 422 without the
\* service being called.
C16_ErrorsSurface ==
    [][ calls' # calls =>
          /\ raised'.kind = "NotFoundError" => returned'[1].status = 404
          /\ raised'.kind = "ConflictError" => returned'[1].status = 409
          /\ raised'.kind = "ValidationError" => returned'[1].status = 422
          /\ raised' # NoError =>
                returned'[1].status \notin {HTTP_200_OK, HTTP_201_CREATED,
                                            HTTP_204_NO_CONTENT}
          /\ (call'.op \in ById /\ Absent(products, call'.product_id[1])
                /\ (call'.data # None => ProductUpdate_validate(call'.data[1]) # None)) =>
                returned'[1].status = 404
          /\ (call'.op = "POST /products" /\ ProductCreate(call'.data[1]) # None
                /\ get_by_sku(products, call'.data[1].sku) # None) =>
                (raised'.code = "DuplicateSKU" /\ returned'[1].status = 409)
          /\ (call'.op = "POST /products" /\ ProductCreate(call'.data[1]) = None) =>
                (returned'[1].status = 422 /\ products' = products /\ dbcalls' = << >>)
          /\ (call'.op = "POST /products/{product_id}/publish"
                /\ raised'.code = "MissingDescription") =>
                returned'[1].status = 422 ]_vars

\* C16 witness: a POST with the sku of a persisted product was answered 409.
C16_Witness ==
    /\ call.op = "POST /products"
    /\ raised.kind = "ConflictError"
    /\ raised.code = "DuplicateSKU"
    /\ products # {}
    /\ returned = Some([status |-> 409, body |-> None])

\* The products of a category.
InCategory(rows, category_id) == {r \in rows : r.category_id = category_id}

FieldsValid(query) ==
    /\ query.skip >= 0
    /\ query.limit >= 1 /\ query.limit <= 100
    /\ query.min_price # None => query.min_price[1] >= 0
    /\ query.max_price # None => query.max_price[1] >= 0
    /\ query.search # None => query.search[1] # ""

\* Both price filters are supplied and the maximum is below the minimum.
MaxBelowMin(query) ==
    /\ query.min_price # None
    /\ query.max_price # None
    /\ query.max_price[1] < query.min_price[1]

UppercaseOnly(sku) ==
    \A i \in DOMAIN Chars(sku) :
       /\ Chars(sku)[i] = upper_char(Chars(sku)[i])
       /\ Chars(sku)[i] # "_"

\* C18: for every sku that ProductCreate accepts, the validated sku is the
\* uppercase form of the supplied sku and consists of uppercase letters,
\* digits and dashes only; every product persisted through POST /products
\* carries such a sku.
C18_SkuUppercase ==
    /\ \A k \in SchemaSkus :
          LET body == [name |-> "A", description |-> None, price |-> MinPrice,
                       sku |-> k, category_id |-> "c1"]
              data == ProductCreate(body)
          IN  data # None =>
                 /\ data[1].sku = Str([i \in DOMAIN Chars(k) |-> upper_char(Chars(k)[i])])
                 /\ UppercaseOnly(data[1].sku)
    /\ \A r \in products : UppercaseOnly(r.sku)
    /\ (call.op = "POST /products" /\ raised = NoError) =>
          \E r \in products :
             /\ r.sku = Str([i \in DOMAIN Chars(call.data[1].sku) |->
                               upper_char(Chars(call.data[1].sku)[i])])
             /\ Some(ProductResponse(r)) = returned[1].body

\* C18 witness: a product posted with the sku S1 is persisted with that sku.
C18_Witness ==
    /\ call.op = "POST /products"
    /\ call.data[1].sku = "S1"
    /\ returned[1].status = HTTP_201_CREATED
    /\ \E r \in products : r.sku = "S1"

C20_PriceCheckedFirst ==
    [][ (/\ Finishes("create")
         /\ call'.data[1].price < 10
         /\ \E r \in products : r.sku = call'.data[1].sku) =>
           /\ raised' = ValidationError("InvalidPrice")
           /\ raised'.code # "DuplicateSKU"
           /\ dbcalls' = << >> ]_vars

\* C20 witness: a create with a price below 0.01 and the sku of a persisted
\* product has failed with InvalidPrice.
C20_Witness ==
    /\ call.op = "create"
    /\ call.data[1].price < 10
    /\ \E r \in products : r.sku = call.data[1].sku
    /\ raised = ValidationError("InvalidPrice")
    /\ dbcalls = << >>

\* C21: update applies only the fields of the payload that are not None: after
\* every successful update, each updatable field whose payload value is None,
\* whether it was left out or sent as None, has the value it had before.
C21_NoneFieldsNotWritten ==
    [][ (Finishes("update") /\ raised' = NoError) =>
           \A f \in UpdatableFields :
              call'.data[1][f] = None =>
                 Row(products', call'.product_id[1])[f]
                    = Row(products, call'.product_id[1])[f] ]_vars

\* C22: list(skip, limit, category_id, search) returns exactly the items at
\* positions skip .. skip+limit-1 of the products that match the filters, in
\* order of creation time descending, where a product matches when its category
\* equals category_id and its name contains the search term as a substring,
\* letter case aside; so the page has min(limit, max(0, total - skip)) items
\* and holds no product that fails the filter. (list leaves the table as it
\* found it, so the state after the call holds the table the call read.)
C22_PageOfMatching ==
    call.op = "list" =>
       LET contains(name, term) ==
               \E i \in 0 .. Len(Chars(name)) - Len(Chars(term)) :
                  \A j \in 1 .. Len(Chars(term)) :
                     lower(Chars(name)[i + j]) = lower(Chars(term)[j])
           passes(r) ==
               /\ call.category_id # None => r.category_id = call.category_id
               /\ call.search # None =>
                     (r.name # None /\ contains(r.name[1], call.search[1]))
           hits == {r \in products : passes(r)}
           skip == call.skip[1]
           limit == call.limit[1]
           total == returned[1].total
           rest == IF total > skip THEN total - skip ELSE 0
       IN  /\ \E order \in Orderings(hits) :
                 returned[1].items = Page(order, skip, limit)
           /\ Len(returned[1].items) = (IF limit < rest THEN limit ELSE rest)
           /\ \A i \in DOMAIN returned[1].items : passes(returned[1].items[i])

\* C23: every successful update stamps the product's updated_by with the
\* calling actor, an update whose payload holds no field included, and the
\* product_updated event it logs lists exactly the names of the fields present
\* in the payload.
C23_UpdateStampsAndLogs ==
    [][ (Finishes("update") /\ raised' = NoError) =>
           /\ Row(products', call'.product_id[1]).updated_by = call'.actor
           /\ logged' = product_updated(call'.product_id[1],
                                        call'.data[1].fields_set,
                                        call'.actor[1])
           /\ logged'.updated_fields = call'.data[1].fields_set ]_vars

\* C23 witness: an update with an empty payload has succeeded on a product that
\* no update had touched; the product carries the updater and the event lists
\* no field.
C23_Witness ==
    \E r \in products :
       /\ call.op = "update"
       /\ call.product_id = Some(r.id)
       /\ call.data[1].fields_set = {}
       /\ raised = NoError
       /\ r.updated_by = call.actor
       /\ r.name = Some("A")
       /\ logged.event = "product_updated"
       /\ logged.updated_fields = {}

\* C24: a create that succeeds persists one new product whose created_by is
\* the actor it was given, commits exactly once, and logs the product_created
\* event with the sku, the id and the actor of that product, once, the commit
\* having gone through; a create that is rejected, by its own checks or by the
\* database at the commit, logs no event and persists nothing.
C24_CreateCommitsThenLogs ==
    [][ Finishes("create") =>
           IF raised' = NoError
           THEN /\ \E r \in products' \ products :
                      /\ products' = products \cup {r}
                      /\ r.created_by = call'.actor
                      /\ r.sku = call'.data[1].sku
                      /\ returned' = Some(r)
                      /\ logged' = product_created(r.id, r.sku, call'.actor[1])
                /\ Cardinality({i \in DOMAIN dbcalls' : dbcalls'[i] = "commit"}) = 1
                /\ Cardinality({i \in DOMAIN dbcalls' : dbcalls'[i] = "add"}) = 1
           ELSE /\ logged' = NoEvent
                /\ products' = products ]_vars

\* C24 witness: a second create has committed; its product_created event names
\* the product that the table now holds next to the first one.
C24_Witness ==
    /\ call.op = "create"
    /\ raised = NoError
    /\ Cardinality(products) = 2
    /\ \E r \in products :
          /\ returned = Some(r)
          /\ r.created_by = call.actor
          /\ logged = product_created(r.id, r.sku, call.actor[1])
    /\ dbcalls = << "execute", "add", "commit", "refresh" >>

\* C25: on every page the list endpoint builds from the result of service.list,
\* has_more is true exactly when a product matching the filters lies beyond the
\* page, that is when skip + the number of items < the number of matching
\* products; so has_more is false on the last page, and on any page whose skip
\* is at least the total.
C25_HasMoreIffBeyond ==
    (call.op = "GET /products" /\ raised = NoError) =>
       LET page == returned[1].body[1]
           hits == Matching(products, call.category_id, call.search)
           beyond == Cardinality(hits) - (call.skip[1] + Len(page.items))
       IN  /\ returned[1].status = HTTP_200_OK
           /\ page.has_more <=> beyond > 0
           /\ call.skip[1] + call.limit[1] >= page.total => ~page.has_more
           /\ call.skip[1] >= page.total => ~page.has_more

\* C25 witness: the first page of one item out of two products says there is
\* more.
C25_Witness ==
    /\ call.op = "GET /products"
    /\ raised = NoError
    /\ call.skip = Some(0)
    /\ call.limit = Some(1)
    /\ Cardinality(products) = 2
    /\ returned[1].body[1].total = 2
    /\ Len(returned[1].body[1].items) = 1
    /\ returned[1].body[1].has_more

\* C26: no call of the service turns is_published from true to false: a product
\* that is published before a step is, after the step, either deleted or still
\* published, whichever of create, update, delete, publish and
\* bulk_update_prices the step is.
C26_PublishedStaysPublished ==
    [][ \A r \in products :
           r.is_published =>
              \/ Absent(products', r.id)
              \/ Row(products', r.id).is_published ]_vars

\* C26 witness: a product that was published has since been changed by a
\* successful update of its name and is still published.
C26_Witness ==
    \E r \in products :
       /\ call.op = "update"
       /\ call.product_id = Some(r.id)
       /\ raised = NoError
       /\ r.name = Some("B")
       /\ r.is_published
       /\ r.published_at # None

\* C27: update never changes a product's id, sku, created_by, quantity,
\* is_active, is_published or published_at: whatever the payload, the product
\* that an update call addresses has the same values in these columns after
\* the call as before, and every other product is as it was.
C27_UpdateLeavesIdentity ==
    [][ Finishes("update") =>
           \A r \in products :
              IF Some(r.id) = call'.product_id
              THEN \E s \in products' :
                      /\ products' \ {s} = products \ {r}
                      /\ \A f \in {"id", "sku", "created_by", "created_at", "quantity",
                                   "is_active", "is_published", "published_at"} :
                            s[f] = r[f]
              ELSE r \in products' ]_vars

\* C27 witness: a published product has been updated in all four fields of the
\* payload and still has its sku, creator, quantity and publication.
C27_Witness ==
    \E r \in products :
       /\ call.op = "update"
       /\ call.product_id = Some(r.id)
       /\ call.data[1].fields_set = UpdatableFields
       /\ raised = NoError
       /\ r.name = Some("B")
       /\ r.price = Some(20)
       /\ r.category_id = Some("c2")
       /\ r.sku = "S1"
       /\ r.created_by = Some("u1")
       /\ r.quantity = DefaultQuantity
       /\ r.is_active
       /\ r.is_published
       /\ r.published_at # None

C29_LowercaseSkuRejected ==
    call.op = "POST /products" =>
       LET sku == call.data[1].sku
           has_lowercase ==
               \E i \in DOMAIN Chars(sku) : upper_char(Chars(sku)[i]) # Chars(sku)[i]
       IN  /\ has_lowercase =>
                /\ ProductCreate(call.data[1]) = None
                /\ raised = RequestValidationError
                /\ returned[1].status = HTTP_422_UNPROCESSABLE_ENTITY
                /\ dbcalls = << >>
                /\ logged = NoEvent
                /\ \A r \in products : r.sku # sku
           /\ ProductCreate(call.data[1]) # None =>
                ProductCreate(call.data[1])[1].sku = sku

\* C29 witness: with the product S1 persisted, a body that is valid but for
\* its sku s1 has been answered 422 and nothing was asked of the database.
C29_Witness ==
    /\ call.op = "POST /products"
    /\ call.data[1].sku = "s1"
    /\ call.data[1].name = "A"
    /\ call.data[1].price = MinPrice
    /\ raised = RequestValidationError
    /\ returned[1].status = HTTP_422_UNPROCESSABLE_ENTITY
    /\ dbcalls = << >>
    /\ \E r \in products : r.sku = "S1"

\* C30: in every state reached by requests whose bodies pass ProductCreate and
\* ProductUpdate, every persisted product has a name, a price and a
\* category_id that are not null: an update cannot null a required column. (An
\* update that sends null for one of them passes ProductUpdate and is refused
\* at the commit, the table staying as it was.)
C30_RequiredColumnsNotNull ==
    /\ \A r \in products :
          r.name # None /\ r.price # None /\ r.category_id # None
    /\ \A r \in products : \A f \in {"name", "price", "category_id"} :
          \A u \in Updaters :
             LET body == ProductUpdate({f}, None, None, None, None)
                 out == update_product(products, r.id, body, u)
             IN  /\ ProductUpdate_validate(body) # None
                 /\ out.rows = products
                 /\ out.raised = IntegrityError("not_null")

\* C30 witness: a PATCH that sent name: null to a persisted product has been
\* refused at the commit, and the product has the name it was created with.
C30_Witness ==
    \E r \in products :
       /\ call.op = "PATCH /products/{product_id}"
       /\ call.product_id = Some(r.id)
       /\ call.data[1].fields_set = {"name"}
       /\ call.data[1].name = None
       /\ raised = IntegrityError("not_null")
       /\ dbcalls = << "execute", "commit" >>
       /\ r.name = Some("A")

====
